---------------------------- MODULE Spec2Model ----------------------------
(***************************************************************************)
(* PubMed Hot Topics Explorer (src/app.py): the run started by the         *)
(* "Run Analysis" button -- esearch, efetch, XML parse, one NER call per   *)
(* title, n-gram construction, frequency tables, export -- together with   *)
(* the pure functions it uses (token normalization, get_entities'          *)
(* filtering, get_ngrams, Counter).                                        *)
(*                                                                         *)
(* A Python str is a sequence of one-character strings.  Two characters    *)
(* stand for code points outside ASCII: "Idot" is U+0130 (capital I with   *)
(* dot above) and "cdot" is U+0307 (combining dot above); str.lower()      *)
(* maps U+0130 to the two code points "i" U+0307.                          *)
(***************************************************************************)
EXTENDS Integers, Sequences, FiniteSets, TLC

(* ------------------------------ bounds -------------------------------- *)
MaxArticles == 2
MaxLen == 3
MaxEnts == 3
MaxLists == 2
MaxEntities == 4
MaxWidth == 3

(* ------------------------------ strings ------------------------------- *)
UpperSeq ==
  <<"A","B","C","D","E","F","G","H","I","J","K","L","M",
    "N","O","P","Q","R","S","T","U","V","W","X","Y","Z">>

LowerSeq ==
  <<"a","b","c","d","e","f","g","h","i","j","k","l","m",
    "n","o","p","q","r","s","t","u","v","w","x","y","z">>

Digits == {"0","1","2","3","4","5","6","7","8","9"}

Range(s) == {s[i] : i \in 1..Len(s)}

UpperLetters == Range(UpperSeq) \cup {"Idot"}

LowerLetters == Range(LowerSeq)

\* re's \w on str: Unicode alphanumerics and the underscore
IsWordChar(c) == c \in UpperLetters \cup LowerLetters \cup Digits \cup {"_"}

\* re.sub(r'\W+', '', e): every run of non-word characters is deleted
re_sub_W(e) == SelectSeq(e, IsWordChar)

\* str.lower() of one character (may yield two code points)
lower_char(c) ==
  IF c = "Idot" THEN <<"i", "cdot">>
  ELSE IF c \in Range(UpperSeq)
       THEN <<LowerSeq[CHOOSE i \in 1..26 : UpperSeq[i] = c]>>
       ELSE <<c>>

\* str.lower() of s[i:], 1-based i
RECURSIVE lower_from(_, _)
lower_from(s, i) ==
  IF i > Len(s) THEN <<>> ELSE lower_char(s[i]) \o lower_from(s, i + 1)

lower(s) == lower_from(s, 1)

\* the token normalization of get_ngrams: re.sub(r'\W+', '', e).lower()
normalize(e) == lower(re_sub_W(e))

\* " ".join(parts[i-1:]), 1-based i
RECURSIVE join_from(_, _)
join_from(parts, i) ==
  IF i > Len(parts) THEN <<>>
  ELSE IF i = Len(parts) THEN parts[i]
       ELSE parts[i] \o <<" ">> \o join_from(parts, i + 1)

\* " ".join(parts)
join_space(parts) == join_from(parts, 1)

\* seq[lo:hi] with 0-based, end-exclusive, clamped Python slice bounds
py_slice(seq, lo, hi) ==
  LET l == IF lo > Len(seq) THEN Len(seq) ELSE lo
      h == IF hi > Len(seq) THEN Len(seq) ELSE hi
  IN  IF h <= l THEN <<>> ELSE SubSeq(seq, l + 1, h)

(* ----------------------------- stoplist ------------------------------- *)
generic_terms ==
  { <<"s","t","u","d","y">>,
    <<"p","a","t","i","e","n","t">>,
    <<"p","a","t","i","e","n","t","s">>,
    <<"t","r","i","a","l">>,
    <<"r","e","s","u","l","t","s">>,
    <<"e","f","f","e","c","t">>,
    <<"e","f","f","e","c","t","s">>,
    <<"g","r","o","u","p">>,
    <<"c","l","i","n","i","c","a","l">>,
    <<"a","n","a","l","y","s","i","s">>,
    <<"e","v","a","l","u","a","t","i","o","n">>,
    <<"t","r","e","a","t","m","e","n","t">>,
    <<"d","a","t","a">> }


(* --------------------------- get_entities ----------------------------- *)
\* One element of the decoded JSON body of the NER response:
\*   "obj"         an object with a string `word`
\*   "obj_noword"  an object without a `word` key
\*   "obj_badword" an object whose `word` is not a string (null, number)
\*   "str"         a string (also: a key, when the body is a JSON object)
\*   "int"         a number
Elem(t, w) == [t |-> t, word |-> w]

\* keep_word comparing the word as returned, without .lower()
keep_word_case_sensitive(e) ==
  IF e.t = "int" THEN "raise"
  ELSE IF e.t \in {"str", "obj_noword"} THEN "skip"
  ELSE IF e.t = "obj_badword" THEN "raise"
  ELSE IF e.word \notin generic_terms THEN "keep" ELSE "skip"

\* the filter of the comprehension; "raise" when evaluating it throws
keep_word(e) ==
  IF e.t = "int" THEN "raise"              \* 'word' in 5 : TypeError
  ELSE IF e.t \in {"str", "obj_noword"} THEN "skip"
  ELSE IF e.t = "obj_badword" THEN "raise" \* None.lower() : AttributeError
  ELSE IF lower(e.word) \notin generic_terms THEN "keep" ELSE "skip"

\* [e['word'] for e in ents if 'word' in e and
\*                             e['word'].lower() not in generic_terms]
RECURSIVE list_comprehension(_)
list_comprehension(ents) ==
  IF ents = <<>> THEN [raised |-> FALSE, val |-> <<>>]
  ELSE LET k == keep_word(Head(ents))
           rest == list_comprehension(Tail(ents))
       IN  IF k = "raise" \/ rest.raised
           THEN [raised |-> TRUE, val |-> <<>>]
           ELSE [raised |-> FALSE,
                 val |-> (IF k = "keep" THEN <<Head(ents).word>> ELSE <<>>)
                         \o rest.val]

\* What requests.post(..., timeout=30) yields: an exception (transport
\* failure, timeout) or a response with a status code and a body that is
\* JSON or not.
Exception == [exc |-> TRUE, status_code |-> 0, json |-> FALSE, ents |-> <<>>]

Response(code, isjson, ents) ==
  [exc |-> FALSE, status_code |-> code, json |-> isjson, ents |-> ents]

\* get_entities_try without the status_code test
get_entities_try_any_status(r) ==
  IF r.exc THEN <<>>
  ELSE IF ~r.json THEN <<>>
       ELSE LET c == list_comprehension(r.ents)
            IN  IF c.raised THEN <<>> ELSE c.val

\* get_entities from the return of requests.post on: the try/except body
get_entities_try(r) ==
  IF r.exc THEN <<>>
  ELSE IF r.status_code = 200
       THEN IF ~r.json THEN <<>>
            ELSE LET c == list_comprehension(r.ents)
                 IN  IF c.raised THEN <<>> ELSE c.val
       ELSE <<>>

\* `if not hf_token: return []` : no request is made
sends_request(token, text) == token # ""

(* ----------------------------- get_ngrams ----------------------------- *)
truthy(e) == e # <<>>

\* tokens = [re.sub(r'\W+', '', e).lower() for e in entities if e]
tokens_of(entities) ==
  LET kept == SelectSeq(entities, truthy)
  IN  [i \in 1..Len(kept) |-> normalize(kept[i])]

\* py_range running one position too far
py_range_one_more(stop) == [i \in 1..(IF stop + 1 > 0 THEN stop + 1 ELSE 0) |-> i - 1]

\* range(len(tokens)-n+1), as the sequence of its values
py_range(stop) == [i \in 1..(IF stop > 0 THEN stop ELSE 0) |-> i - 1]

\* [" ".join(tokens[i:i+n]) for i in range(len(tokens)-n+1)]
windows(tokens, n) ==
  LET r == py_range(Len(tokens) - n + 1)
  IN  [j \in 1..Len(r) |-> join_space(py_slice(tokens, r[j], r[j] + n))]

\* ngrams after the first k passes of `for entities in entity_lists`
RECURSIVE ngrams_after(_, _, _)
ngrams_after(entity_lists, n, k) ==
  IF k = 0 THEN <<>>
  ELSE ngrams_after(entity_lists, n, k - 1)
       \o windows(tokens_of(entity_lists[k]), n)

get_ngrams(entity_lists, n) == ngrams_after(entity_lists, n, Len(entity_lists))

(* ---------------------- chain.from_iterable, Counter ------------------ *)
\* list(chain.from_iterable(df['entities']))
RECURSIVE chain_from(_, _)
chain_from(lists, i) ==
  IF i > Len(lists) THEN <<>> ELSE lists[i] \o chain_from(lists, i + 1)

chain_from_iterable(lists) == chain_from(lists, 1)

EmptyTable == [x \in {} |-> 0]

\* counts[x] += 1, a missing key counting as 0
Counter_add(c, x) ==
  IF x \in DOMAIN c THEN [c EXCEPT ![x] = @ + 1] ELSE c @@ (x :> 1)

\* Counter(items): one pass over items
RECURSIVE Counter(_)
Counter(items) ==
  IF items = <<>> THEN EmptyTable
  ELSE Counter_add(Counter(SubSeq(items, 1, Len(items) - 1)), items[Len(items)])

(* ------------------------------- state -------------------------------- *)
VARIABLES
  pc,            \* position of the script inside the `if st.button` block
  hf_token,      \* the text_input value
  id_list,       \* line 37
  response,      \* line 42
  records,       \* line 45
  df_columns,    \* columns of df
  applied,       \* values get_entities has returned so far, with their row
  in_flight,     \* NER requests sent and not yet answered
  posts,         \* rows for which requests.post was called, in call order
  outcomes,      \* per row, how its get_entities call ended
  df_entities,   \* df['entities']
  bigrams, trigrams, all_words,
  word_freq, bigram_freq, trigram_freq,
  notices,       \* st.error / st.info / st.subheader texts shown
  error,         \* the exception that ended the script, "" when none
  csv,           \* argument of st.download_button
  h_in, h_out    \* argument and result of a function applied on its own

run_vars ==
  <<pc, hf_token, id_list, response, records, df_columns, applied, in_flight,
    posts, outcomes, df_entities, bigrams, trigrams, all_words, word_freq,
    bigram_freq, trigram_freq, notices, error, csv>>

vars == <<run_vars, h_in, h_out>>

(* ------------------------------- inputs ------------------------------- *)
Tokens == {"", "hf_xxx"}

Titles == { <<>>, <<" ">>, <<"T","2","D">> }

Word(w) == Elem("obj", w)

Diabetes == <<"D","i","a","b","e","t","e","s">>

Type == <<"T","y","p","e">>

Study == <<"S","t","u","d","y">>

\* decoded JSON bodies the NER service answers with in a run
Bodies ==
  { <<>>,
    <<Word(Diabetes), Word(Type)>>,
    <<Word(Diabetes), Word(Type), Word(<<"2">>)>>,
    <<Word(Study), Word(Diabetes)>>,
    <<Elem("obj_noword", <<>>), Word(<<"-","-">>), Word(Type)>> }

NerResponses ==
  { Exception,
    Response(503, TRUE, <<Word(Type)>>),
    Response(200, FALSE, <<>>),
    Response(200, TRUE, <<Word(Type), Elem("int", <<>>)>>) }
  \cup { Response(200, TRUE, b) : b \in Bodies }

outcome_of(r) ==
  IF r.exc THEN "exception"
  ELSE IF r.status_code # 200 THEN "non200"
  ELSE IF ~r.json THEN "notjson"
  ELSE IF list_comprehension(r.ents).raised THEN "bad_shape"
  ELSE "ok"

\* what requests.get(esearch_url) and r.json() give
SearchResponses ==
  { [kind |-> "exception", idlist |-> <<>>],
    [kind |-> "notjson", idlist |-> <<>>],
    [kind |-> "no_esearchresult", idlist |-> <<>>],
    [kind |-> "no_idlist", idlist |-> <<>>] }
  \cup { [kind |-> "ok", idlist |-> [i \in 1..k |-> i]] : k \in 0..MaxArticles }

Article(pmid, title) == [PMID |-> pmid, Title |-> title]

ArticleLists ==
  UNION { { [i \in 1..k |-> Article(i, f[i])] : f \in [1..k -> Titles] }
          : k \in 0..MaxArticles }

\* what requests.get(efetch_url, timeout=20) gives
FetchResponses ==
  { [received |-> FALSE, exc |-> TRUE, wellformed |-> FALSE, articles |-> <<>>],
    [received |-> TRUE, exc |-> FALSE, wellformed |-> FALSE, articles |-> <<>>] }
  \cup { [received |-> TRUE, exc |-> FALSE, wellformed |-> TRUE, articles |-> a]
          : a \in ArticleLists }

NoResponse ==
  [received |-> FALSE, exc |-> FALSE, wellformed |-> FALSE, articles |-> <<>>]

NoCsv == [exported |-> FALSE, rows |-> <<>>]

Idle == [fn |-> "none", arg |-> <<>>, n |-> 0]

NoResult == [done |-> FALSE, val |-> <<>>]

(* -------------------------------- run --------------------------------- *)
RunInit ==
  /\ pc = "idle"
  /\ id_list = <<>>
  /\ response = NoResponse
  /\ records = <<>>
  /\ df_columns = {}
  /\ applied = <<>>
  /\ in_flight = {}
  /\ posts = <<>>
  /\ outcomes = <<>>
  /\ df_entities = <<>>
  /\ bigrams = <<>>
  /\ trigrams = <<>>
  /\ all_words = <<>>
  /\ word_freq = EmptyTable
  /\ bigram_freq = EmptyTable
  /\ trigram_freq = EmptyTable
  /\ notices = {}
  /\ error = ""
  /\ csv = NoCsv

Init ==
  /\ RunInit
  /\ hf_token \in Tokens
  /\ h_in = Idle
  /\ h_out = NoResult

\* an exception nothing catches ends the script
Raise(exc) ==
  /\ pc' = "crashed"
  /\ error' = exc

\* line 31: the button is pressed
RunAnalysis ==
  /\ pc = "idle"
  /\ pc' = "esearch"
  /\ UNCHANGED <<hf_token, id_list, response, records, df_columns, applied,
                 in_flight, posts, outcomes, df_entities, bigrams, trigrams,
                 all_words, word_freq, bigram_freq, trigram_freq, notices,
                 error, csv, h_in, h_out>>

\* lines 34-37
esearch ==
  /\ pc = "esearch"
  /\ \E r \in SearchResponses :
       \/ /\ r.kind = "exception"
          /\ Raise("ConnectionError")
          /\ UNCHANGED id_list
       \/ /\ r.kind = "notjson"
          /\ Raise("JSONDecodeError")
          /\ UNCHANGED id_list
       \/ /\ r.kind = "no_esearchresult"
          /\ Raise("KeyError: 'esearchresult'")
          /\ UNCHANGED id_list
       \/ /\ r.kind \in {"no_idlist", "ok"}
          /\ id_list' = r.idlist
          /\ pc' = "efetch"
          /\ UNCHANGED error
  /\ UNCHANGED <<hf_token, response, records, df_columns, applied, in_flight,
                 posts, outcomes, df_entities, bigrams, trigrams, all_words,
                 word_freq, bigram_freq, trigram_freq, notices, csv,
                 h_in, h_out>>

\* lines 40-42
efetch ==
  /\ pc = "efetch"
  /\ \E r \in FetchResponses :
       \/ /\ r.exc
          /\ Raise("ConnectionError")
          /\ UNCHANGED response
       \/ /\ ~r.exc
          /\ response' = r
          /\ pc' = "parse"
          /\ UNCHANGED error
  /\ UNCHANGED <<hf_token, id_list, records, df_columns, applied, in_flight,
                 posts, outcomes, df_entities, bigrams, trigrams, all_words,
                 word_freq, bigram_freq, trigram_freq, notices, csv,
                 h_in, h_out>>

\* pd.DataFrame(records): the columns are the keys of the dicts
DataFrame_columns(recs) ==
  IF recs = <<>> THEN {} ELSE {"PMID", "Title", "Link", "Journal", "Date"}

\* lines 45-62
parse_xml ==
  /\ pc = "parse"
  /\ IF response.wellformed
     THEN /\ records' = response.articles
          /\ UNCHANGED notices
     ELSE /\ records' = <<>>
          /\ notices' = notices \cup {"Failed to parse PubMed XML."}
  /\ df_columns' = DataFrame_columns(records')
  /\ pc' = "ner"
  /\ UNCHANGED <<hf_token, id_list, response, applied, in_flight, posts,
                 outcomes, df_entities, bigrams, trigrams, all_words,
                 word_freq, bigram_freq, trigram_freq, error, csv,
                 h_in, h_out>>

\* lines 81-82: st.info, then df['Title']
select_Title ==
  /\ pc = "ner"
  /\ notices' = notices \cup {"Running Hugging Face NER on article titles..."}
  /\ IF "Title" \in df_columns
     THEN pc' = "apply" /\ UNCHANGED error
     ELSE Raise("KeyError: 'Title'")
  /\ UNCHANGED <<hf_token, id_list, response, records, df_columns, applied,
                 in_flight, posts, outcomes, df_entities, bigrams, trigrams,
                 all_words, word_freq, bigram_freq, trigram_freq, csv,
                 h_in, h_out>>

\* next_row walking the rows from the last to the first
next_row_reversed == Len(records) - Len(applied)

\* Series.apply calls get_entities on the next row once the previous call
\* has returned
next_row == Len(applied) + 1

\* lines 66-67
get_entities_no_token ==
  /\ pc = "apply"
  /\ in_flight = {}
  /\ next_row <= Len(records)
  /\ ~sends_request(hf_token, records[next_row].Title)
  /\ applied' = Append(applied, [row |-> next_row, entities |-> <<>>])
  /\ outcomes' = Append(outcomes, "no_call")
  /\ UNCHANGED <<pc, hf_token, id_list, response, records, df_columns,
                 in_flight, posts, df_entities, bigrams, trigrams, all_words,
                 word_freq, bigram_freq, trigram_freq, notices, error, csv,
                 h_in, h_out>>

\* lines 68-71: the request goes out and the script blocks on it
get_entities_post ==
  /\ pc = "apply"
  /\ in_flight = {}
  /\ next_row <= Len(records)
  /\ sends_request(hf_token, records[next_row].Title)
  /\ in_flight' = in_flight \cup
                    {[row |-> next_row, inputs |-> records[next_row].Title]}
  /\ posts' = Append(posts, next_row)
  /\ UNCHANGED <<pc, hf_token, id_list, response, records, df_columns,
                 applied, outcomes, df_entities, bigrams, trigrams, all_words,
                 word_freq, bigram_freq, trigram_freq, notices, error, csv,
                 h_in, h_out>>

\* lines 71-79: the answer, the timeout or the failure arrives
get_entities_return ==
  /\ pc = "apply"
  /\ \E q \in in_flight, r \in NerResponses :
       /\ in_flight' = in_flight \ {q}
       /\ applied' = Append(applied,
                            [row |-> q.row, entities |-> get_entities_try(r)])
       /\ outcomes' = Append(outcomes, outcome_of(r))
  /\ UNCHANGED <<pc, hf_token, id_list, response, records, df_columns, posts,
                 df_entities, bigrams, trigrams, all_words, word_freq,
                 bigram_freq, trigram_freq, notices, error, csv, h_in, h_out>>

\* line 82: df['entities'] = ...
assign_entities ==
  /\ pc = "apply"
  /\ in_flight = {}
  /\ next_row > Len(records)
  /\ df_entities' = [i \in 1..Len(applied) |-> applied[i].entities]
  /\ df_columns' = df_columns \cup {"entities"}
  /\ pc' = "ngrams"
  /\ UNCHANGED <<hf_token, id_list, response, records, applied, in_flight,
                 posts, outcomes, bigrams, trigrams, all_words, word_freq,
                 bigram_freq, trigram_freq, notices, error, csv, h_in, h_out>>

\* ngram_stage counting normalized single words
ngram_stage_normalized ==
  /\ pc = "ngrams"
  /\ bigrams' = get_ngrams(df_entities, 2)
  /\ trigrams' = get_ngrams(df_entities, 3)
  /\ all_words' = get_ngrams(df_entities, 1)
  /\ pc' = "clouds"
  /\ UNCHANGED <<hf_token, id_list, response, records, df_columns, applied,
                 in_flight, posts, outcomes, df_entities, word_freq,
                 bigram_freq, trigram_freq, notices, error, csv, h_in, h_out>>

\* lines 92-96
ngram_stage ==
  /\ pc = "ngrams"
  /\ bigrams' = get_ngrams(df_entities, 2)
  /\ trigrams' = get_ngrams(df_entities, 3)
  /\ all_words' = chain_from_iterable(df_entities)
  /\ pc' = "clouds"
  /\ UNCHANGED <<hf_token, id_list, response, records, df_columns, applied,
                 in_flight, posts, outcomes, df_entities, word_freq,
                 bigram_freq, trigram_freq, notices, error, csv, h_in, h_out>>

\* lines 97-120: a Counter is built, and its cloud shown, only for a
\* non-empty list; otherwise the table stays empty
wordclouds ==
  /\ pc = "clouds"
  /\ word_freq' = IF all_words # <<>> THEN Counter(all_words) ELSE word_freq
  /\ bigram_freq' = IF bigrams # <<>> THEN Counter(bigrams) ELSE bigram_freq
  /\ trigram_freq' = IF trigrams # <<>> THEN Counter(trigrams) ELSE trigram_freq
  /\ notices' = notices
       \cup (IF all_words # <<>> THEN {"Wordcloud - Single Words"} ELSE {})
       \cup (IF bigrams # <<>> THEN {"Wordcloud - Bigrams"} ELSE {})
       \cup (IF trigrams # <<>> THEN {"Wordcloud - Trigrams"} ELSE {})
  /\ pc' = "export"
  /\ UNCHANGED <<hf_token, id_list, response, records, df_columns, applied,
                 in_flight, posts, outcomes, df_entities, bigrams, trigrams,
                 all_words, error, csv, h_in, h_out>>

\* lines 123-124: one row per article, in df order
export ==
  /\ pc = "export"
  /\ csv' = [exported |-> TRUE,
             rows |-> [i \in 1..Len(records) |->
                         [PMID |-> records[i].PMID,
                          Title |-> records[i].Title,
                          entities |-> df_entities[i]]]]
  /\ pc' = "done"
  /\ UNCHANGED <<hf_token, id_list, response, records, df_columns, applied,
                 in_flight, posts, outcomes, df_entities, bigrams, trigrams,
                 all_words, word_freq, bigram_freq, trigram_freq, notices,
                 error, h_in, h_out>>

Next ==
  \/ RunAnalysis
  \/ esearch
  \/ efetch
  \/ parse_xml
  \/ select_Title
  \/ get_entities_no_token
  \/ get_entities_post
  \/ get_entities_return
  \/ assign_entities
  \/ ngram_stage
  \/ wordclouds
  \/ export

Spec == Init /\ [][Next]_vars


(* ------------------- the functions applied on their own ---------------- *)
Alphabet == {"a", "A", "1", "-", " ", "_", "Idot"}

Strings == UNION { [1..k -> Alphabet] : k \in 0..MaxLen }

EntityVocab == { <<>>, <<"-","-">>, <<"A","b">>, <<"c">> }

\* flat cut into m consecutive lists ending at positions c[1] <= ... <= c[m]
CutAt(flat, c, m) ==
  [a \in 1..m |-> SubSeq(flat, (IF a = 1 THEN 0 ELSE c[a - 1]) + 1, c[a])]

\* every batch of at most MaxLists entity lists holding at most MaxEntities
\* entities in all
EntityLists ==
  UNION { UNION { { CutAt(flat, c, m) :
                    c \in { d \in [1..m -> 0..Len(flat)] :
                              /\ \A a \in 1..m : a > 1 => d[a - 1] <= d[a]
                              /\ m > 0 => d[m] = Len(flat) } }
                  : m \in (IF flat = <<>> THEN 0 ELSE 1)..MaxLists }
          : flat \in UNION { [1..k -> EntityVocab] : k \in 0..MaxEntities } }

NerElems ==
  { Elem("obj_noword", <<>>), Word(Study), Word(<<"d","a","t","a">>),
    Word(<<"D","A","T","A">>), Word(Diabetes), Word(<<"-","-">>) }

NerLists == UNION { [1..k -> NerElems] : k \in 0..MaxEnts }

Call(fn, arg, n) == [fn |-> fn, arg |-> arg, n |-> n]

Return(v) == [done |-> TRUE, val |-> v]

InitNormalize ==
  /\ RunInit
  /\ hf_token = ""
  /\ h_in \in { Call("normalize", e, 0) : e \in Strings }
  /\ h_out = NoResult

apply_normalize ==
  /\ h_in.fn = "normalize"
  /\ ~h_out.done
  /\ h_out' = Return(normalize(h_in.arg))
  /\ UNCHANGED <<run_vars, h_in>>

SpecNormalize == InitNormalize /\ [][apply_normalize]_vars

InitNgrams ==
  /\ RunInit
  /\ hf_token = ""
  /\ h_in \in { Call("get_ngrams", l, n) : l \in EntityLists, n \in 1..MaxWidth }
  /\ h_out = NoResult

apply_get_ngrams ==
  /\ h_in.fn = "get_ngrams"
  /\ ~h_out.done
  /\ h_out' = Return(get_ngrams(h_in.arg, h_in.n))
  /\ UNCHANGED <<run_vars, h_in>>

SpecNgrams == InitNgrams /\ [][apply_get_ngrams]_vars

InitExtract ==
  /\ RunInit
  /\ hf_token = "hf_xxx"
  /\ h_in \in { Call("get_entities", Response(200, TRUE, l), 0) : l \in NerLists }
  /\ h_out = NoResult

apply_get_entities ==
  /\ h_in.fn = "get_entities"
  /\ ~h_out.done
  /\ h_out' = Return(get_entities_try(h_in.arg))
  /\ UNCHANGED <<run_vars, h_in>>

SpecExtract == InitExtract /\ [][apply_get_entities]_vars


(* ----------------------- vocabulary of the claims ---------------------- *)
RECURSIVE SumLen(_, _)
SumLen(ss, k) == IF k = 0 THEN 0 ELSE SumLen(ss, k - 1) + Len(ss[k])

\* the concatenation of the sequences of ss, position by position
Concat(ss) ==
  [p \in 1..SumLen(ss, Len(ss)) |->
     LET i == CHOOSE i \in 1..Len(ss) : SumLen(ss, i - 1) < p /\ p <= SumLen(ss, i)
     IN  ss[i][p - SumLen(ss, i - 1)]]

Max0(x) == IF x > 0 THEN x ELSE 0

\* the stride-1 windows of width w over toks, each joined by single spaces
StrideWindows(toks, w) ==
  [i \in 1..Max0(Len(toks) - w + 1) |-> join_space(SubSeq(toks, i, i + w - 1))]

PerArticleWindows(lists, w) ==
  [a \in 1..Len(lists) |-> StrideWindows(tokens_of(lists[a]), w)]

NonEmptyTokens(entities) == SelectSeq(tokens_of(entities), truthy)

PerArticleWindowsDropping(lists, w) ==
  [a \in 1..Len(lists) |-> StrideWindows(NonEmptyTokens(lists[a]), w)]

\* phrase.split(" ")
RECURSIVE Split(_, _)
Split(s, cur) ==
  IF s = <<>> THEN <<cur>>
  ELSE IF Head(s) = " " THEN <<cur>> \o Split(Tail(s), <<>>)
       ELSE Split(Tail(s), Append(cur, Head(s)))

\* the multiset count of a sequence
CountOf(seq) ==
  [x \in Range(seq) |-> Cardinality({i \in 1..Len(seq) : seq[i] = x})]

RECURSIVE SumCounts(_, _)
SumCounts(t, keys) ==
  IF keys = {} THEN 0
  ELSE LET x == CHOOSE x \in keys : TRUE
       IN  t[x] + SumCounts(t, keys \ {x})

Total(t) == SumCounts(t, DOMAIN t)

HasNonWhitespace(text) == \E i \in 1..Len(text) : text[i] # " "

NerFailures == {"exception", "non200", "notjson", "bad_shape"}

FailedRows == {i \in 1..Len(outcomes) : outcomes[i] \in NerFailures}

RowSucceeded(i) == outcomes[i] \notin NerFailures

\* the entity lists of the rows whose call did not fail, in row order
SurvivingLists ==
  LET rows == SelectSeq([i \in 1..Len(applied) |-> i], RowSucceeded)
  IN  [j \in 1..Len(rows) |-> applied[rows[j]].entities]

Parsed == response.received /\ pc # "parse"

Aggregated == pc \in {"export", "done"}

(* -------------------------------- C1 ---------------------------------- *)
C1_Recovered ==
  /\ \A i \in FailedRows : applied[i].entities = <<>>
  /\ FailedRows # {} => pc # "crashed" /\ error = ""
  /\ Aggregated =>
       /\ all_words = Concat(SurvivingLists)
       /\ bigrams = Concat(PerArticleWindows(SurvivingLists, 2))
       /\ trigrams = Concat(PerArticleWindows(SurvivingLists, 3))
       /\ word_freq = CountOf(Concat(SurvivingLists))
       /\ bigram_freq = CountOf(Concat(PerArticleWindows(SurvivingLists, 2)))
       /\ trigram_freq = CountOf(Concat(PerArticleWindows(SurvivingLists, 3)))

\* C1: whatever way an article's NER call fails (exception or timeout,
\* non-200 status, 200 with a malformed body), get_entities returns [] for
\* that article, the script is not ended by it and goes on to the next row
\* or to the assignment of the column, and the tables are those of the other
\* articles alone.
C1_NerFailureNeverAborts ==
  /\ C1_Recovered
  /\ FailedRows # {} => pc \in {"apply", "ngrams", "clouds", "export", "done"}
  /\ (FailedRows # {} /\ pc = "apply") =>
       \/ ENABLED get_entities_no_token
       \/ ENABLED get_entities_post
       \/ ENABLED get_entities_return
       \/ ENABLED assign_entities

C1_Witness ==
  /\ pc = "done"
  /\ Len(outcomes) = 2
  /\ outcomes[1] \in NerFailures
  /\ outcomes[2] = "ok"
  /\ applied[2].entities # <<>>
  /\ word_freq # EmptyTable

(* -------------------------------- C2 ---------------------------------- *)
\* C2: a run over an empty article batch ends without an error, with no
\* enriched article and three empty frequency tables.
C2_EmptyBatchCompletes ==
  (Parsed /\ records = <<>>) =>
    /\ pc # "crashed"
    /\ error = ""
    /\ word_freq = EmptyTable /\ bigram_freq = EmptyTable
    /\ trigram_freq = EmptyTable
    /\ csv.rows = <<>>

(* -------------------------------- C3 ---------------------------------- *)
\* C3: no upstream failure ends the script: a search response that is not
\* JSON or lacks the expected key gives an empty id_list, a malformed fetch
\* document gives an empty batch and the error notice, and the run goes on.
C3_NoUpstreamFailureIsFatal ==
  /\ error \notin {"JSONDecodeError", "KeyError: 'esearchresult'"}
  /\ (Parsed /\ ~response.wellformed) =>
       /\ records = <<>>
       /\ "Failed to parse PubMed XML." \in notices
       /\ pc # "crashed"

(* -------------------------------- C4 ---------------------------------- *)
\* C4: a request is sent to the NER service only for a non-empty token and a
\* title with a non-whitespace character; otherwise get_entities returns []
\* without any request.
C4_ShortCircuit ==
  /\ \A j \in 1..Len(posts) :
       hf_token # "" /\ HasNonWhitespace(records[posts[j]].Title)
  /\ \A i \in 1..Len(applied) :
       (hf_token = "" \/ ~HasNonWhitespace(records[i].Title)) =>
         applied[i].entities = <<>> /\ outcomes[i] = "no_call"

(* -------------------------------- C5 ---------------------------------- *)
\* C5: the normalized token contains only lowercase letters and digits, and
\* normalizing it again changes nothing.
C5_NormalizeAlnumIdempotent ==
  (h_in.fn = "normalize" /\ h_out.done) =>
    /\ \A i \in 1..Len(h_out.val) : h_out.val[i] \in LowerLetters \cup Digits
    /\ normalize(h_out.val) = h_out.val

(* -------------------------------- C6 ---------------------------------- *)
\* C6: an entity that normalizes to the empty string is dropped before
\* windowing: every phrase of width n is n non-empty tokens joined by single
\* spaces, and the neighbours of a dropped entity become adjacent.
C6_EmptyTokensDropped ==
  (h_in.fn = "get_ngrams" /\ h_out.done) =>
    /\ \A p \in 1..Len(h_out.val) :
         LET parts == Split(h_out.val[p], <<>>)
         IN  Len(parts) = h_in.n /\ \A k \in 1..Len(parts) : parts[k] # <<>>
    /\ h_out.val = Concat(PerArticleWindowsDropping(h_in.arg, h_in.n))

(* -------------------------------- C7 ---------------------------------- *)
\* C7: get_ngrams returns, in article order, each article's stride-1 windows
\* over its own token list: k-n+1 phrases for k >= n tokens, none for k < n,
\* every phrase made of n tokens of one article.
C7_WindowsPerArticle ==
  /\ (h_in.fn = "get_ngrams" /\ h_out.done) =>
       /\ h_out.val = Concat(PerArticleWindows(h_in.arg, h_in.n))
       /\ Len(h_out.val) =
            SumLen([a \in 1..Len(h_in.arg) |->
                      [i \in 1..Max0(Len(tokens_of(h_in.arg[a])) - h_in.n + 1)
                         |-> i]],
                   Len(h_in.arg))
       /\ \A a \in 1..Len(h_in.arg) :
            Len(tokens_of(h_in.arg[a])) < h_in.n =>
              get_ngrams(<<h_in.arg[a]>>, h_in.n) = <<>>
  /\ get_ngrams(<<<<Diabetes, Type, <<"2">>>>>>, 2) =
       << <<"d","i","a","b","e","t","e","s"," ","t","y","p","e">>,
          <<"t","y","p","e"," ","2">> >>
  /\ get_ngrams(<<<<Diabetes, Type, <<"2">>>>>>, 3) =
       << <<"d","i","a","b","e","t","e","s"," ","t","y","p","e"," ","2">> >>

C7_Witness ==
  /\ h_in.fn = "get_ngrams" /\ h_out.done
  /\ h_in.n = 2
  /\ Len(h_in.arg) = 2
  /\ Len(tokens_of(h_in.arg[1])) = 1
  /\ Len(tokens_of(h_in.arg[2])) = 3
  /\ Len(h_out.val) = 2

(* -------------------------------- C8 ---------------------------------- *)
CarriesKeptWord(e) == e.t = "obj" /\ lower(e.word) \notin generic_terms

\* C8: on a 200 response holding entity objects, get_entities returns the
\* raw `word` of every object that has one and whose lowercased word is not
\* in generic_terms, in response order, duplicates included.
C8_StoplistFilter ==
  (h_in.fn = "get_entities" /\ h_out.done) =>
    LET kept == SelectSeq(h_in.arg.ents, CarriesKeptWord)
    IN  h_out.val = [i \in 1..Len(kept) |-> kept[i].word]

C8_Witness ==
  /\ h_in.fn = "get_entities" /\ h_out.done
  /\ h_in.arg.ents = <<Word(Diabetes), Word(Study), Word(Diabetes)>>
  /\ h_out.val = <<Diabetes, Diabetes>>

(* -------------------------------- C9 ---------------------------------- *)
\* C9: the unigram table counts the raw entity strings of all articles, the
\* bigram and trigram tables count the width-2 and width-3 phrases of
\* normalized tokens, each table's counts sum to the length of what was
\* counted, and extractions ["Diabetes","Type"] and [] give
\* {"Diabetes":1,"Type":1}, {"diabetes type":1} and {}.
C9_Tables ==
  Aggregated =>
    LET raw == [i \in 1..Len(applied) |-> applied[i].entities]
    IN  /\ word_freq = CountOf(Concat(raw))
        /\ bigram_freq = CountOf(Concat(PerArticleWindows(raw, 2)))
        /\ trigram_freq = CountOf(Concat(PerArticleWindows(raw, 3)))
        /\ Total(word_freq) = SumLen(raw, Len(raw))
        /\ Total(bigram_freq) = Len(bigrams)
        /\ Total(trigram_freq) = Len(trigrams)
        /\ raw = <<<<Diabetes, Type>>, <<>>>> =>
             /\ word_freq = (Diabetes :> 1 @@ Type :> 1)
             /\ bigram_freq =
                  (<<"d","i","a","b","e","t","e","s"," ","t","y","p","e">> :> 1)
             /\ trigram_freq = EmptyTable

C9_Witness ==
  /\ pc = "done"
  /\ df_entities = <<<<Diabetes, Type>>, <<>>>>
  /\ outcomes = <<"ok", "exception">>
  /\ DOMAIN word_freq = {Diabetes, Type}

(* -------------------------------- C10 --------------------------------- *)
\* C10: the articles are extracted one at a time in input order: at most one
\* request is outstanding, no article is requested twice, the request for a
\* row is sent only when every earlier row has its result, the tables are
\* computed only when every row has its result, and the enriched articles
\* are in input order.
C10_Sequential ==
  /\ Cardinality(in_flight) <= 1
  /\ \A j, k \in 1..Len(posts) : j < k => posts[j] < posts[k]
  /\ \A j \in 1..Len(posts) : posts[j] <= Len(applied) + 1
  /\ \A q \in in_flight : q.row = Len(applied) + 1 /\ posts[Len(posts)] = q.row
  /\ \A i \in 1..Len(applied) : applied[i].row = i
  /\ (pc \in {"clouds", "export", "done"} \/ word_freq # EmptyTable
        \/ bigram_freq # EmptyTable \/ trigram_freq # EmptyTable) =>
       in_flight = {} /\ Len(applied) = Len(records)
  /\ csv.exported =>
       /\ Len(csv.rows) = Len(records)
       /\ \A i \in 1..Len(records) :
            /\ csv.rows[i].PMID = records[i].PMID
            /\ csv.rows[i].entities = applied[i].entities

C10_Witness ==
  /\ pc = "done"
  /\ posts = <<1, 2>>
  /\ outcomes[1] = "exception"
  /\ csv.exported /\ Len(csv.rows) = 2

=============================================================================
